---- MODULE Spec2Model ----
(***************************************************************************)
(* Model of process_data.py: the analyzer of ESP32 MMA8451 CSV logs.       *)
(*                                                                         *)
(*   load_csv, estimate_fs_from_timedelta_ms and fft_spectrum are the      *)
(*   operators of those names; main is the pc-driven actions of Spec.      *)
(*   SpecLoad, SpecRate and SpecFft call one function each on inputs       *)
(*   drawn from bounded sets.                                              *)
(*                                                                         *)
(* float64 values are modelled as exact rationals n/d in lowest terms,     *)
(* together with nan, +inf and -inf; a finite result whose magnitude       *)
(* exceeds FloatMax overflows to an infinity, as IEEE arithmetic does.     *)
(* Rounding of finite results is not modelled.  The amplitude of a         *)
(* spectrum bin needs cos/sin and is kept as an uninterpreted term that    *)
(* records the bin index and the transformed samples.                      *)
(***************************************************************************)
EXTENDS Integers, Sequences, FiniteSets, TLC

\* ------------------------------------------------------------------ bounds

\* rows of a file given to load_csv alone, any fields unreadable
MaxLoadRows == 1
\* samples of a time column given to estimate_fs_from_timedelta_ms alone
MaxTimeLen == 5
\* how far an inserted outlier gap exceeds the uniform interval
MaxGap == 2
\* rows of a file with few unreadable fields per row
MaxOrderRows == 3
\* samples of a signal given to fft_spectrum alone
MaxSigLen == 10
\* rows of a file given to main
MaxMainRows == 9

\* stands for the largest finite float64
FloatMax == 10000

\* ------------------------------------------------------------------ floats

Abs(i) == IF i < 0 THEN -i ELSE i

RECURSIVE Gcd(_, _)
Gcd(a, b) == IF b = 0 THEN a ELSE Gcd(b, a % b)

NaN == [k |-> "nan", n |-> 0, d |-> 1]
PInf == [k |-> "pinf", n |-> 1, d |-> 0]
NInf == [k |-> "ninf", n |-> -1, d |-> 0]

\* the float nearest to n/d (d # 0): lowest terms, overflow to +-inf
Rat(n, d) ==
    LET s == IF d < 0 THEN -1 ELSE 1
        g == Gcd(Abs(n), Abs(d))
        nn == (s * n) \div g
        dd == (s * d) \div g
    IN  IF nn > FloatMax * dd THEN PInf
        ELSE IF -nn > FloatMax * dd THEN NInf
        ELSE [k |-> "fin", n |-> nn, d |-> dd]

Fin(i) == Rat(i, 1)

\* np.isfinite
IsFinite(a) == a.k = "fin"

Neg(a) ==
    CASE a.k = "fin" -> [a EXCEPT !.n = -a.n]
      [] a.k = "pinf" -> NInf
      [] a.k = "ninf" -> PInf
      [] OTHER -> NaN

\* a + b in IEEE arithmetic
FAdd(a, b) ==
    CASE a.k = "nan" \/ b.k = "nan" -> NaN
      [] a.k = "fin" /\ b.k = "fin" -> Rat(a.n * b.d + b.n * a.d, a.d * b.d)
      [] a.k = "fin" -> b
      [] b.k = "fin" -> a
      [] a.k = b.k -> a
      [] OTHER -> NaN

\* a - b
FSub(a, b) == FAdd(a, Neg(b))

Sign(a) == IF a.n > 0 THEN 1 ELSE IF a.n < 0 THEN -1 ELSE 0

\* a * b
FMul(a, b) ==
    CASE a.k = "nan" \/ b.k = "nan" -> NaN
      [] a.k = "fin" /\ b.k = "fin" -> Rat(a.n * b.n, a.d * b.d)
      [] Sign(a) * Sign(b) > 0 -> PInf
      [] Sign(a) * Sign(b) < 0 -> NInf
      [] OTHER -> NaN

\* a / b (numpy: x/0 is +-inf or nan, with a warning)
FDiv(a, b) ==
    CASE a.k = "nan" \/ b.k = "nan" -> NaN
      [] a.k = "fin" /\ b.k = "fin" ->
            IF b.n # 0 THEN Rat(a.n * b.d, a.d * b.n)
            ELSE IF a.n > 0 THEN PInf
            ELSE IF a.n < 0 THEN NInf
            ELSE NaN
      [] a.k = "fin" -> Fin(0)
      [] b.k = "fin" -> IF Sign(a) * (IF b.n < 0 THEN -1 ELSE 1) > 0 THEN PInf ELSE NInf
      [] OTHER -> NaN

\* a < b; every comparison with nan is false
FLess(a, b) ==
    CASE a.k = "nan" \/ b.k = "nan" -> FALSE
      [] a.k = "fin" /\ b.k = "fin" -> a.n * b.d < b.n * a.d
      [] a.k = "ninf" -> b.k # "ninf"
      [] b.k = "pinf" -> a.k # "pinf"
      [] OTHER -> FALSE

RECURSIVE IsqrtFrom(_, _)
IsqrtFrom(i, r) == IF (r + 1) * (r + 1) > i THEN r ELSE IsqrtFrom(i, r + 1)

\* np.sqrt, to the integer below for a finite argument
FSqrt(a) ==
    CASE a.k = "nan" \/ a.k = "ninf" -> NaN
      [] a.k = "pinf" -> PInf
      [] a.n < 0 -> NaN
      [] OTHER -> Fin(IsqrtFrom(a.n \div a.d, 0))

\* ------------------------------------------------------------------ arrays

Range(s) == {s[i] : i \in 1..Len(s)}

\* a[ok]: boolean-mask indexing of a 1-d array
RECURSIVE Compress(_, _)
Compress(a, ok) ==
    IF Len(a) = 0 THEN <<>>
    ELSE (IF Head(ok) THEN <<Head(a)>> ELSE <<>>) \o Compress(Tail(a), Tail(ok))

\* a[k:]
Slice(a, k) == SubSeq(a, k + 1, Len(a))

\* np.sum
RECURSIVE FSum(_)
FSum(a) == IF Len(a) = 0 THEN Fin(0) ELSE FAdd(Head(a), FSum(Tail(a)))

\* np.mean
FMean(a) == FDiv(FSum(a), Fin(Len(a)))

RECURSIVE Insert(_, _)
Insert(v, s) ==
    IF Len(s) = 0 THEN <<v>>
    ELSE IF FLess(Head(s), v) THEN <<Head(s)>> \o Insert(v, Tail(s))
    ELSE <<v>> \o s

\* np.sort of finite values
RECURSIVE Sort(_)
Sort(a) == IF Len(a) = 0 THEN <<>> ELSE Insert(Head(a), Sort(Tail(a)))

\* the mean in place of the median
MedianAsMean(a) == FMean(a)

\* np.median of a non-empty array of finite values: the middle element of
\* the sorted array, or the mean of the two middle elements
Median(a) ==
    LET s == Sort(a)
        n == Len(s)
    IN  IF n % 2 = 1 THEN s[(n + 1) \div 2]
        ELSE FMean(<<s[n \div 2], s[n \div 2 + 1]>>)

\* ------------------------------------------------------------------ errors

NoError == [type |-> "", msg |-> <<>>]

\* raise ValueError(msg); the message is kept word by word
ValueError(words) == [type |-> "ValueError", msg |-> words]

RateMsg == <<"Not", "enough", "valid", "time", "steps", "to", "estimate", "sampling", "rate.">>
FftMsg == <<"Not", "enough", "samples", "for", "FFT.">>
\* data[name] on a structured array without that field
FieldMsg(name) == <<"no", "field", "of", "name", name>>

\* ------------------------------------------------------------------ load_csv

\* the text of one CSV field
Num(i) == [k |-> "num", v |-> i]
Txt(s) == [k |-> s, v |-> 0]

\* genfromtxt with dtype=float: a field that float() rejects, and a missing
\* field, become nan
Parse(tok) ==
    CASE tok.k = "num" -> Fin(tok.v)
      [] tok.k = "inf" -> PInf
      [] tok.k = "-inf" -> NInf
      [] OTHER -> NaN

\* position of a name in the header row, 0 when absent
IndexOf(hdr, name) ==
    IF name \in Range(hdr) THEN CHOOSE i \in 1..Len(hdr) : hdr[i] = name ELSE 0

\* data[name] of the array genfromtxt(..., names=True) returns
Column(hdr, rws, name) == [i \in 1..Len(rws) |-> Parse(rws[i][IndexOf(hdr, name)])]

RowMaskNoZ(t, x, y, z) ==
    [i \in 1..Len(t) |-> IsFinite(t[i]) /\ IsFinite(x[i]) /\ IsFinite(y[i])]

\* ok = np.isfinite(t_ms) & np.isfinite(ax) & np.isfinite(ay) & np.isfinite(az)
RowMask(t, x, y, z) ==
    [i \in 1..Len(t) |->
        IsFinite(t[i]) /\ IsFinite(x[i]) /\ IsFinite(y[i]) /\ IsFinite(z[i])]

FieldNames == <<"timedelta_ms", "Xacc", "Yacc", "Zacc">>

Loaded(t, x, y, z, e) == [ok |-> e = NoError, t_ms |-> t, ax |-> x, ay |-> y, az |-> z, err |-> e]

\* each column filtered by its own finiteness
load_csv_own_mask(hdr, rws) ==
    LET missing == {i \in 1..4 : FieldNames[i] \notin Range(hdr)}
        own(c) == Compress(c, [i \in 1..Len(c) |-> IsFinite(c[i])])
    IN  IF missing # {}
        THEN Loaded(<<>>, <<>>, <<>>, <<>>, ValueError(FieldMsg(FieldNames[CHOOSE i \in missing : \A j \in missing : i <= j])))
        ELSE Loaded(own(Column(hdr, rws, "timedelta_ms")), own(Column(hdr, rws, "Xacc")),
                    own(Column(hdr, rws, "Yacc")), own(Column(hdr, rws, "Zacc")), NoError)

load_csv(hdr, rws) ==
    LET missing == {i \in 1..4 : FieldNames[i] \notin Range(hdr)}
        t == Column(hdr, rws, "timedelta_ms")
        x == Column(hdr, rws, "Xacc")
        y == Column(hdr, rws, "Yacc")
        z == Column(hdr, rws, "Zacc")
        ok == RowMask(t, x, y, z)
    IN  IF missing # {}
        THEN Loaded(<<>>, <<>>, <<>>, <<>>, ValueError(FieldMsg(FieldNames[CHOOSE i \in missing : \A j \in missing : i <= j])))
        ELSE Loaded(Compress(t, ok), Compress(x, ok), Compress(y, ok), Compress(z, ok), NoError)

\* ------------------------------------------------------------------ estimate_fs_from_timedelta_ms

\* np.diff
Diff(t) == [i \in 1..(IF Len(t) = 0 THEN 0 ELSE Len(t) - 1) |-> FSub(t[i + 1], t[i])]

ValidStepFiniteOnly(v) == IsFinite(v)

\* np.isfinite(dt_ms) & (dt_ms > 0)
ValidStep(v) == IsFinite(v) /\ FLess(Fin(0), v)

TooFewStepsOne(dt) == Len(dt) < 1

\* dt_ms.size < 2
TooFewSteps(dt) == Len(dt) < 2

Estimated(fs, med, e) == [ok |-> e = NoError, fs_hz |-> fs, median_dt_ms |-> med, err |-> e]

estimate_fs_from_timedelta_ms(t) ==
    LET dt == SelectSeq(Diff(t), ValidStep)
    IN  IF TooFewSteps(dt) THEN Estimated(NaN, NaN, ValueError(RateMsg))
        ELSE LET median_dt_ms == Median(dt)
             IN  Estimated(FDiv(Fin(1000), median_dt_ms), median_dt_ms, NoError)

\* ------------------------------------------------------------------ fft_spectrum

KeepAll(x) == x

\* x[np.isfinite(x)]
FiniteOnly(x) == SelectSeq(x, IsFinite)

RfftfreqHalved(n, d) ==
    LET val == FDiv(Fin(1), FMul(Fin(n), d))
    IN  [i \in 1..(n \div 2) |-> FMul(Fin(i - 1), val)]

\* np.fft.rfftfreq(n, d): arange(0, n // 2 + 1) * (1.0 / (n * d))
Rfftfreq(n, d) ==
    LET val == FDiv(Fin(1), FMul(Fin(n), d))
    IN  [i \in 1..(n \div 2 + 1) |-> FMul(Fin(i - 1), val)]

\* (np.abs(np.fft.rfft(x * np.hanning(n))) / n) * (2.0 / (np.sum(np.hanning(n)) / n)),
\* bin by bin, as terms over the transformed samples x
Amplitudes(x) == [i \in 1..(Len(x) \div 2 + 1) |-> [bin |-> i - 1, samples |-> x]]

Spectrum(f, mag, e) == [ok |-> e = NoError, f |-> f, mag |-> mag, err |-> e]

fft_spectrum(signal, fs, remove_dc) ==
    LET x0 == FiniteOnly(signal)
        x == IF remove_dc /\ Len(x0) # 0
             THEN LET m == FMean(x0) IN [i \in 1..Len(x0) |-> FSub(x0[i], m)]
             ELSE x0
        n == Len(x)
    IN  IF n < 8 THEN Spectrum(<<>>, <<>>, ValueError(FftMsg))
        ELSE Spectrum(Rfftfreq(n, FDiv(Fin(1), fs)), Amplitudes(x), NoError)

\* ------------------------------------------------------------------ state

\* CSV_FILE = "Ecja-u.csv"
CSV_FILE == "Ecja-u.csv"
\* MAX_FREQ_HZ = 50
MAX_FREQ_HZ == 50

VARIABLES
    pc,             \* position in main
    header, rows,   \* the header row and the data rows of the file CSV_FILE
    t_ms, ax, ay, az, amag,
    fs_hz, median_dt_ms,
    spec_of,        \* channel -> (f, mag) returned by fft_spectrum
    spectra,        \* the list spectra of main
    fig_time, fig_fft, \* what has been drawn on the two figures
    shown,          \* the figures plt.show() has put on screen
    stdout,
    error,          \* the exception that ended main
    failed_at,      \* the position at which it was raised
    rt, rstat, rest, rprev, rorig, rgap,  \* estimate_fs_from_timedelta_ms called alone
    sig, sfs, sdc, sstat, sres            \* fft_spectrum called alone

mainVars == <<pc, header, rows, t_ms, ax, ay, az, amag, fs_hz, median_dt_ms, spec_of,
              spectra, fig_time, fig_fft, shown, stdout, error, failed_at>>
rateVars == <<rt, rstat, rest, rprev, rorig, rgap>>
fftVars == <<sig, sfs, sdc, sstat, sres>>
vars == <<mainVars, rateVars, fftVars>>

\* a name not yet assigned
None == [k |-> "none", n |-> 0, d |-> 1]

Channels == <<"Xacc", "Yacc", "Zacc", "AccMag">>

NoSpectrum == [ok |-> FALSE, f |-> <<>>, mag |-> <<>>, err |-> NoError]
NoEstimate == [ok |-> FALSE, fs_hz |-> None, median_dt_ms |-> None, err |-> NoError]

\* ------------------------------------------------------------------ inputs

Headers ==
    { FieldNames,
      <<"timedelta_ms", "Yacc", "Xacc", "Zacc">>,
      <<"time_ms", "Xacc", "Yacc", "Zacc">> }

BadTexts == {Txt("nan"), Txt("inf"), Txt("-inf"), Txt("abc")}

\* row i of a file for load_csv: the fields in B hold the text bad, the
\* others a number that tells the row and the column
LoadRow(i, B, bad) == [c \in 1..4 |-> IF c \in B THEN bad ELSE Num(10 * i + c)]

LoadRowChoices == {<<{}, Txt("nan")>>} \cup ((SUBSET (1..4) \ {{}}) \X BadTexts)

\* rows with at most one field that is not a number, or with two that are nan
OrderRowChoices ==
    {<<{}, Txt("nan")>>}
        \cup ({{c} : c \in 1..4} \X {Txt("abc"), Txt("inf")})
        \cup ({{1, 4}, {2, 3}} \X {Txt("nan")})

FilesOf(choices, maxRows) ==
    UNION { { [i \in 1..n |-> LoadRow(i, ch[i][1], ch[i][2])] : ch \in [1..n -> choices] }
            : n \in 0..maxRows }

LoadFiles == FilesOf(LoadRowChoices, MaxLoadRows) \cup FilesOf(OrderRowChoices, MaxOrderRows)

\* a file for main: n rows step ms apart, row bad with an unreadable Zacc,
\* row huge with an Xacc whose square overflows
MainFile(n, step, bad, huge) ==
    [i \in 1..n |->
        << Num((i - 1) * step),
           IF i = huge THEN Num(FloatMax) ELSE Num(3),
           Num(4),
           IF i = bad THEN Txt("abc") ELSE Num((i % 2) * 12) >>]

MainFiles ==
    { MainFile(n, step, bad, huge) :
        n \in 0..MaxMainRows, step \in {0, 10}, bad \in 0..MaxMainRows, huge \in 0..MaxMainRows }

TimeVals == {Fin(0), Fin(1), Fin(2), Fin(3), Fin(4), PInf}

TimeColumns == UNION { [1..n -> TimeVals] : n \in 0..MaxTimeLen }

\* a signal of n samples, those at B not finite
Signal(n, B, bad) == [i \in 1..n |-> IF i \in B THEN bad ELSE Fin(i % 3)]

Signals ==
    UNION { { Signal(n, B, bad) : B \in SUBSET (1..n), bad \in {NaN, PInf} } : n \in 0..MaxSigLen }

Rates == {Fin(100), Rat(200, 3)}

\* main about to run on the file with header row h and data rows r
MainAt(p, h, r) ==
    /\ pc = p /\ header = h /\ rows = r
    /\ t_ms = <<>> /\ ax = <<>> /\ ay = <<>> /\ az = <<>> /\ amag = <<>>
    /\ fs_hz = None /\ median_dt_ms = None
    /\ spec_of = [c \in Range(Channels) |-> NoSpectrum]
    /\ spectra = <<>> /\ fig_time = <<>> /\ fig_fft = <<>>
    /\ shown = {} /\ stdout = <<>> /\ error = NoError /\ failed_at = ""

RateIdle ==
    /\ rt = <<>> /\ rstat = "idle" /\ rest = NoEstimate /\ rprev = NoEstimate
    /\ rorig = <<>> /\ rgap = 0

FftIdle ==
    /\ sig = <<>> /\ sfs = None /\ sdc = FALSE /\ sstat = "idle" /\ sres = NoSpectrum

MainIdle == MainAt("idle", FieldNames, <<>>)

\* ------------------------------------------------------------------ main

\* an exception leaves main: nothing after the raising line runs
Abort(e) ==
    /\ pc' = "aborted"
    /\ error' = e
    /\ failed_at' = pc

\* t_ms, ax, ay, az = load_csv(CSV_FILE)
LoadStep ==
    /\ pc = "load"
    /\ LET r == load_csv(header, rows)
       IN  IF r.ok
           THEN /\ t_ms' = r.t_ms /\ ax' = r.ax /\ ay' = r.ay /\ az' = r.az
                /\ pc' = "amag"
                /\ UNCHANGED <<error, failed_at>>
           ELSE /\ Abort(r.err)
                /\ UNCHANGED <<t_ms, ax, ay, az>>
    /\ UNCHANGED <<header, rows, amag, fs_hz, median_dt_ms, spec_of, spectra, fig_time,
                   fig_fft, shown, stdout, rateVars, fftVars>>

\* amag = np.sqrt(ax * ax + ay * ay + az * az)
AmagStep ==
    /\ pc = "amag"
    /\ amag' = [i \in 1..Len(ax) |->
                  FSqrt(FAdd(FAdd(FMul(ax[i], ax[i]), FMul(ay[i], ay[i])), FMul(az[i], az[i])))]
    /\ pc' = "rate"
    /\ UNCHANGED <<header, rows, t_ms, ax, ay, az, fs_hz, median_dt_ms, spec_of, spectra,
                   fig_time, fig_fft, shown, stdout, error, failed_at, rateVars, fftVars>>

EstimateStepDefaultRate ==
    /\ pc = "rate"
    /\ LET r == estimate_fs_from_timedelta_ms(t_ms)
           fs == IF r.ok THEN r.fs_hz ELSE Fin(100)
           med == IF r.ok THEN r.median_dt_ms ELSE Fin(10)
       IN  /\ fs_hz' = fs /\ median_dt_ms' = med
           /\ stdout' = <<[File |-> CSV_FILE, Samples |-> Len(t_ms), fs |-> fs,
                           median_dt |-> med, Nyquist |-> FDiv(fs, Fin(2))]>>
           /\ pc' = "timeplot"
           /\ UNCHANGED <<error, failed_at>>
    /\ UNCHANGED <<header, rows, t_ms, ax, ay, az, amag, spec_of, spectra, fig_time,
                   fig_fft, shown, rateVars, fftVars>>

\* fs_hz, median_dt_ms = estimate_fs_from_timedelta_ms(t_ms) and the prints
EstimateStep ==
    /\ pc = "rate"
    /\ LET r == estimate_fs_from_timedelta_ms(t_ms)
       IN  IF r.ok
           THEN /\ fs_hz' = r.fs_hz /\ median_dt_ms' = r.median_dt_ms
                /\ stdout' = <<[File |-> CSV_FILE, Samples |-> Len(t_ms), fs |-> r.fs_hz,
                                median_dt |-> r.median_dt_ms,
                                Nyquist |-> FDiv(r.fs_hz, Fin(2))]>>
                /\ pc' = "timeplot"
                /\ UNCHANGED <<error, failed_at>>
           ELSE /\ Abort(r.err)
                /\ UNCHANGED <<fs_hz, median_dt_ms, stdout>>
    /\ UNCHANGED <<header, rows, t_ms, ax, ay, az, amag, spec_of, spectra, fig_time,
                   fig_fft, shown, rateVars, fftVars>>

\* the signal main passes to fft_spectrum for a channel
SignalOf(ch) ==
    CASE ch = "Xacc" -> ax
      [] ch = "Yacc" -> ay
      [] ch = "Zacc" -> az
      [] OTHER -> amag

\* the time plots: one trace per signal against t_s = t_ms / 1000.0
TimePlotStep ==
    /\ pc = "timeplot"
    /\ LET t_s == [i \in 1..Len(t_ms) |-> FDiv(t_ms[i], Fin(1000))]
       IN  fig_time' = [i \in 1..4 |-> [name |-> Channels[i], x |-> t_s, y |-> SignalOf(Channels[i])]]
    /\ pc' = "fft_Xacc"
    /\ UNCHANGED <<header, rows, t_ms, ax, ay, az, amag, fs_hz, median_dt_ms, spec_of,
                   spectra, fig_fft, shown, stdout, error, failed_at, rateVars, fftVars>>

FftPc(ch) ==
    CASE ch = "Xacc" -> "fft_Xacc"
      [] ch = "Yacc" -> "fft_Yacc"
      [] ch = "Zacc" -> "fft_Zacc"
      [] OTHER -> "fft_AccMag"

AfterFft(ch) ==
    CASE ch = "Xacc" -> "fft_Yacc"
      [] ch = "Yacc" -> "fft_Zacc"
      [] ch = "Zacc" -> "fft_AccMag"
      [] OTHER -> "spectra"

\* fx, mx = fft_spectrum(ax, fs_hz) and the three calls after it
FftStep ==
    \E ch \in Range(Channels) :
        /\ pc = FftPc(ch)
        /\ LET r == fft_spectrum(SignalOf(ch), fs_hz, FALSE)
           IN  IF r.ok
               THEN /\ spec_of' = [spec_of EXCEPT ![ch] = r]
                    /\ pc' = AfterFft(ch)
                    /\ UNCHANGED <<error, failed_at>>
               ELSE /\ Abort(r.err)
                    /\ UNCHANGED spec_of
        /\ UNCHANGED <<header, rows, t_ms, ax, ay, az, amag, fs_hz, median_dt_ms, spectra,
                       fig_time, fig_fft, shown, stdout, rateVars, fftVars>>

TrimmedAllByOne(sp) ==
    [i \in 1..4 |-> [name |-> Channels[i],
                     freq |-> Slice(sp[Channels[i]].f, 1),
                     mag |-> Slice(sp[Channels[i]].mag, 1)]]

\* spectra = [("Xacc", fx[2:], mx[2:]), ..., ("AccMag", fm[1:], mm[1:])]
Trimmed(sp) ==
    << [name |-> "Xacc", freq |-> Slice(sp["Xacc"].f, 2), mag |-> Slice(sp["Xacc"].mag, 2)],
       [name |-> "Yacc", freq |-> Slice(sp["Yacc"].f, 2), mag |-> Slice(sp["Yacc"].mag, 2)],
       [name |-> "Zacc", freq |-> Slice(sp["Zacc"].f, 2), mag |-> Slice(sp["Zacc"].mag, 2)],
       [name |-> "AccMag", freq |-> Slice(sp["AccMag"].f, 1), mag |-> Slice(sp["AccMag"].mag, 1)] >>

\* the list spectra and the spectrum plots, each with set_xlim(0, MAX_FREQ_HZ)
SpectraStep ==
    /\ pc = "spectra"
    /\ spectra' = Trimmed(spec_of)
    /\ fig_fft' = [i \in 1..4 |-> [name |-> spectra'[i].name, x |-> spectra'[i].freq,
                                   y |-> spectra'[i].mag, xlim |-> <<0, MAX_FREQ_HZ>>]]
    /\ pc' = "show"
    /\ UNCHANGED <<header, rows, t_ms, ax, ay, az, amag, fs_hz, median_dt_ms, spec_of,
                   fig_time, shown, stdout, error, failed_at, rateVars, fftVars>>

\* plt.show()
ShowStep ==
    /\ pc = "show"
    /\ shown' = {"Acceleration vs Time", "FFT Spectrum"}
    /\ pc' = "done"
    /\ UNCHANGED <<header, rows, t_ms, ax, ay, az, amag, fs_hz, median_dt_ms, spec_of,
                   spectra, fig_time, fig_fft, stdout, error, failed_at, rateVars, fftVars>>

Init ==
    /\ \E h \in Headers, r \in MainFiles : MainAt("load", h, r)
    /\ RateIdle
    /\ FftIdle

Next ==
    \/ LoadStep
    \/ AmagStep
    \/ EstimateStep
    \/ TimePlotStep
    \/ FftStep
    \/ SpectraStep
    \/ ShowStep

Spec == Init /\ [][Next]_vars

\* ------------------------------------------------------------------ load_csv called alone

InitLoad ==
    /\ \E h \in Headers, r \in LoadFiles : MainAt("load", h, r)
    /\ RateIdle
    /\ FftIdle

SpecLoad == InitLoad /\ [][LoadStep]_vars

\* ------------------------------------------------------------------ estimate_fs_from_timedelta_ms called alone

InitRate ==
    /\ MainIdle
    /\ \E t \in TimeColumns :
        /\ rt = t /\ rorig = t
        /\ rstat = "input" /\ rest = NoEstimate /\ rprev = NoEstimate /\ rgap = 0
    /\ FftIdle

\* rest = estimate_fs_from_timedelta_ms(rt)
RateCall ==
    /\ rstat \in {"input", "gapped"}
    /\ rest' = estimate_fs_from_timedelta_ms(rt)
    /\ rprev' = rest
    /\ rstat' = IF rstat = "input" THEN "estimated" ELSE "re-estimated"
    /\ UNCHANGED <<rt, rorig, rgap, mainVars, fftVars>>

\* the samples are d > 0 apart, with at least 2 intervals
Uniform(t, d) ==
    /\ Len(t) >= 3
    /\ d > 0
    /\ \A i \in 1..Len(t) : t[i] = Fin(t[1].n + (i - 1) * d)

\* a gap of g > d ms is inserted after sample p of a uniform column: sample p is
\* followed by a sample g ms later, and the samples after p come that much later
InsertGap ==
    /\ rstat = "estimated"
    /\ \E d \in 1..4, p \in 1..Len(rt), e \in 1..MaxGap :
        /\ \A i \in 1..Len(rt) : IsFinite(rt[i])
        /\ Uniform(rt, d)
        /\ rgap' = d + e
        /\ rt' = SubSeq(rt, 1, p) \o [i \in 1..(Len(rt) - p + 1) |-> FAdd(rt[p + i - 1], Fin(d + e))]
    /\ rstat' = "gapped"
    /\ UNCHANGED <<rest, rprev, rorig, mainVars, fftVars>>

NextRate == RateCall \/ InsertGap

SpecRate == InitRate /\ [][NextRate]_vars

\* ------------------------------------------------------------------ fft_spectrum called alone

InitFft ==
    /\ MainIdle
    /\ RateIdle
    /\ \E s \in Signals, fs \in Rates, dc \in BOOLEAN :
        /\ sig = s /\ sfs = fs /\ sdc = dc
        /\ sstat = "input" /\ sres = NoSpectrum

\* sres = fft_spectrum(sig, sfs, remove_dc=sdc)
FftCall ==
    /\ sstat = "input"
    /\ sres' = fft_spectrum(sig, sfs, sdc)
    /\ sstat' = "returned"
    /\ UNCHANGED <<sig, sfs, sdc, mainVars, rateVars>>

SpecFft == InitFft /\ [][FftCall]_vars

\* ------------------------------------------------------------------ claims about load_csv

\* the data rows whose four named fields all hold a number
CleanRows == {i \in 1..Len(rows) : \A c \in 1..4 : rows[i][IndexOf(header, FieldNames[c])].k = "num"}

\* the four numbers of data row i, in the order time, X, Y, Z
RowValues(i) == [c \in 1..4 |-> Fin(rows[i][IndexOf(header, FieldNames[c])].v)]

\* the four values load_csv returned at index i
Returned(i) == <<t_ms[i], ax[i], ay[i], az[i]>>

\* C1: load_csv returns, in each of its four sequences, one entry per row whose
\* four fields are all finite and none for any other row, and each such row's
\* four values are returned unchanged as often as the row occurs
C1_DroppedRows ==
    pc = "amag" =>
        /\ Len(t_ms) = Cardinality(CleanRows)
        /\ Len(ax) = Cardinality(CleanRows)
        /\ Len(ay) = Cardinality(CleanRows)
        /\ Len(az) = Cardinality(CleanRows)
        /\ \A i \in CleanRows :
              Cardinality({j \in 1..Len(t_ms) : Returned(j) = RowValues(i)})
                = Cardinality({j \in CleanRows : RowValues(j) = RowValues(i)})

\* a file with a clean row and a row with two unreadable fields has been loaded
C1_Witness ==
    /\ pc = "amag"
    /\ CleanRows # {}
    /\ \E i \in 1..Len(rows) : Cardinality({c \in 1..4 : rows[i][c].k # "num"}) = 2

\* C2: the four sequences load_csv returns have one length, index i of each
\* holds a value of one and the same source row, and the rows are in file order
C2_Aligned ==
    pc = "amag" =>
        /\ Len(ax) = Len(t_ms) /\ Len(ay) = Len(t_ms) /\ Len(az) = Len(t_ms)
        /\ \E f \in [1..Len(t_ms) -> 1..Len(rows)] :
              /\ \A i, j \in 1..Len(t_ms) : i < j => f[i] < f[j]
              /\ \A i \in 1..Len(t_ms) : Returned(i) = RowValues(f[i])

\* the middle row of three was dropped: the two kept rows are not neighbours
C2_Witness ==
    /\ pc = "amag"
    /\ Len(rows) = 3
    /\ CleanRows = {1, 3}
    /\ Len(t_ms) = 2

\* ------------------------------------------------------------------ claims about estimate_fs_from_timedelta_ms

\* the steps of the column rt that are finite and strictly positive, told from
\* the two samples of each step
ValidSteps ==
    {i \in 1..(Len(rt) - 1) :
        /\ rt[i].k = "fin" /\ rt[i + 1].k = "fin"
        /\ rt[i + 1].n * rt[i].d > rt[i].n * rt[i + 1].d}

\* twice the size of step i (the samples are whole milliseconds)
Step2(i) == 2 * (rt[i + 1].n - rt[i].n)

\* twice the r-th smallest of the valid steps
Ranked2(r) ==
    CHOOSE v \in {Step2(i) : i \in ValidSteps} :
        /\ Cardinality({i \in ValidSteps : Step2(i) < v}) < r
        /\ Cardinality({i \in ValidSteps : Step2(i) <= v}) >= r

Returned2 == rstat \in {"estimated", "re-estimated"}

\* C3: estimate_fs_from_timedelta_ms raises exactly when fewer than 2 steps of
\* the column are finite and strictly positive
C3_RateError ==
    Returned2 =>
        /\ rest.ok <=> Cardinality(ValidSteps) >= 2
        /\ ~rest.ok => rest.err = ValueError(RateMsg)

\* the call succeeded on a column with exactly 2 valid steps and a step that
\* is zero or negative
C3_Witness ==
    /\ Returned2
    /\ rest.ok
    /\ Cardinality(ValidSteps) = 2
    /\ \E i \in 1..(Len(rt) - 1) :
          rt[i].k = "fin" /\ rt[i + 1].k = "fin" /\ rt[i + 1].n <= rt[i].n

\* C5: on success median_dt_ms is the median of the strictly positive steps
\* alone (with k of them: the mean of the ones ranked (k+1) div 2 and
\* k div 2 + 1), and fs_hz * median_dt_ms = 1000
C5_Median ==
    (Returned2 /\ rest.ok) =>
        LET k == Cardinality(ValidSteps)
            m == rest.median_dt_ms
            fs == rest.fs_hz
        IN  /\ m.k = "fin" /\ fs.k = "fin"
            /\ 4 * m.n = (Ranked2((k + 1) \div 2) + Ranked2(k \div 2 + 1)) * m.d
            /\ fs.n * m.n = 1000 * fs.d * m.d

\* the call succeeded on a column that also has a zero step and a negative step
C5_Witness ==
    /\ Returned2
    /\ rest.ok
    /\ \E i \in 1..(Len(rt) - 1) : rt[i].k = "fin" /\ rt[i + 1] = rt[i]
    /\ \E i \in 1..(Len(rt) - 1) :
          rt[i].k = "fin" /\ rt[i + 1].k = "fin" /\ rt[i + 1].n < rt[i].n

\* C6: a column of at least 2 intervals, all d > 0, gives 1000 / d, and gives
\* the same result after one larger gap is inserted
C6_Outlier ==
    rstat = "re-estimated" =>
        LET d == rorig[2].n - rorig[1].n
        IN  /\ Uniform(rorig, d)
            /\ rgap > d
            /\ Len(rt) = Len(rorig) + 1
            /\ rprev.ok /\ rest.ok
            /\ rprev.fs_hz = Rat(1000, d)
            /\ rest.fs_hz = rprev.fs_hz
            /\ rest.median_dt_ms = rprev.median_dt_ms

\* a gap was inserted between the only 2 intervals of a column: 1 outlier of 3
C6_Witness ==
    /\ rstat = "re-estimated"
    /\ Len(rorig) = 3
    /\ rt[3].n - rt[2].n = rgap

\* ------------------------------------------------------------------ claims about fft_spectrum

\* the number of finite samples of the signal sig
FiniteCount == Cardinality({i \in 1..Len(sig) : sig[i].k = "fin"})

\* C4: fft_spectrum raises exactly when the signal has fewer than 8 finite
\* samples, with remove_dc false and with remove_dc true, and returns a
\* spectrum otherwise
C4_FftError ==
    sstat = "returned" =>
        /\ sres.ok <=> FiniteCount >= 8
        /\ ~sres.ok => sres.err = ValueError(FftMsg)
        /\ sres.ok => Len(sres.f) > 0 /\ Len(sres.mag) = Len(sres.f)

\* the call with remove_dc=True succeeded on exactly 8 finite samples that
\* came with samples that are not finite
C4_Witness ==
    /\ sstat = "returned"
    /\ sdc
    /\ sres.ok
    /\ FiniteCount = 8
    /\ Len(sig) > 8

Computed(i) == fft_spectrum(SignalOf(Channels[i]), fs_hz, FALSE)

\* s is r without its first k entries
Without(s, r, k) == Len(s) = Len(r) - k /\ \A j \in 1..Len(s) : s[j] = r[j + k]

C9_AllOrNothing ==
    /\ (shown # {} \/ pc \in {"spectra", "show", "done"}) =>
          /\ load_csv(header, rows).ok
          /\ estimate_fs_from_timedelta_ms(t_ms).ok
          /\ fs_hz = estimate_fs_from_timedelta_ms(t_ms).fs_hz
          /\ \A i \in 1..4 : Computed(i).ok /\ spec_of[Channels[i]] = Computed(i)
          /\ error = NoError
    /\ pc = "aborted" => shown = {} /\ error # NoError
    /\ error # NoError => pc = "aborted"
    /\ ~load_csv(header, rows).ok => pc \in {"load", "aborted"}
    /\ (pc \notin {"load", "amag", "rate"} /\ ~estimate_fs_from_timedelta_ms(t_ms).ok) =>
          pc = "aborted" /\ fs_hz = None /\ fig_time = <<>>
    /\ \A i \in 1..4 :
          (spec_of[Channels[i]] # NoSpectrum) => spec_of[Channels[i]] = Computed(i)

\* the magnitude spectrum failed after the time traces were drawn and the X, Y
\* and Z spectra were computed, and nothing was shown
C9_Witness ==
    /\ pc = "aborted"
    /\ failed_at = "fft_AccMag"
    /\ fig_time # <<>>
    /\ spec_of["Zacc"].ok
    /\ shown = {}

\* the words by which a message can name the position at which main failed
NamesOf(at) ==
    CASE at = "load" -> {"field", "header", "column"}
      [] at = "rate" -> {"time", "rate", "rate.", "sampling"}
      [] at = "fft_Xacc" -> {"X", "x", "Xacc", "ax"}
      [] at = "fft_Yacc" -> {"Y", "y", "Yacc", "ay"}
      [] at = "fft_Zacc" -> {"Z", "z", "Zacc", "az"}
      [] at = "fft_AccMag" -> {"AccMag", "amag", "magnitude", "Magnitude"}
      [] OTHER -> {}

\* C10: the error that ends a run names the stage that failed, and for a
\* spectrum the channel
C10_ErrorNamesStage ==
    pc = "aborted" => Range(error.msg) \cap NamesOf(failed_at) # {}

====
